---- MODULE Spec2Model ----
(***************************************************************************)
(* Model of app.py of sport-predict-app: the tag-to-sport classifier       *)
(* predict_sport_from_tags, the request handler index with its four side   *)
(* effects, and the read-modify-write of log_prediction_to_blob.           *)
(*                                                                         *)
(* Strings whose characters matter (tag names, keywords) are sequences of  *)
(* one-character strings, so that str.lower() and the `in` substring test  *)
(* are computed character by character.  A confidence is an integer number *)
(* of hundredths: 0 is 0.0 and 100 is 1.0; only its order and max matter.  *)
(***************************************************************************)
EXTENDS Integers, Sequences, FiniteSets, TLC

VARIABLES
    \* ---- one call of predict_sport_from_tags ----
    tags,        \* the argument: a sequence of tag records
    idx,         \* number of tags the for loop of line 321 has consumed
    scores,      \* the local dict scores
    cpc,         \* "loop", "returned" or "raised"
    best_sport,  \* first component of the returned tuple (None before)
    best_score,  \* second component of the returned tuple (None before)
    exc,         \* class name of the exception that left the call (None before)
    \* ---- the process: module globals and the handler index ----
    env,         \* which module-level settings and clients are set (truthy)
    req,         \* number of requests received so far
    pc,          \* position of the request in index
    method,      \* request.method
    image_url,   \* request.form.get("image_url")
    email,       \* request.form.get("email")
    vision,      \* outcome of the Computer Vision call of this request
    cv_tags,     \* result.get("tags", []) of this request
    prediction,  \* local prediction
    score,       \* local score
    error,       \* local error
    blob_url,    \* local blob_url
    calls,       \* the side-effect functions this request has called, in order
    response,    \* arguments of the render_template that answered the request
    \* ---- the blob predictions.log and concurrent log_prediction_to_blob ----
    predictions_log,  \* content of the blob: its lines, in order
    w_pc,        \* per writer: "idle", "downloaded"
    w_existing,  \* per writer: local existing_blob
    w_line,      \* per writer: local line
    w_calls      \* per writer: number of calls started

classifyVars == <<tags, idx, scores, cpc, best_sport, best_score, exc>>
indexVars == <<env, req, pc, method, image_url, email, vision, cv_tags,
               prediction, score, error, blob_url, calls, response>>
writerVars == <<w_pc, w_existing, w_line, w_calls>>
vars == <<classifyVars, indexVars, predictions_log, writerVars>>

\* Python's None, where the value beside it is a string or a record.
None == "None"

----------------------------------------------------------------------------
\* JSON values of a tag's "name" member: a string or null.
JStr(s) == [type |-> "string", value |-> s]
JNull == [type |-> "null"]

\* The keyword table of predict_sport_from_tags, in its declared order
\* (a dict iterates in insertion order).
SPORT_KEYWORDS ==
    << [sport |-> "Football (Soccer)", keywords |-> <<
           <<"s","o","c","c","e","r">>,  \* soccer
           <<"f","o","o","t","b","a","l","l">>,  \* football
           <<"s","o","c","c","e","r"," ","b","a","l","l">>,  \* soccer ball
           <<"f","o","o","t","b","a","l","l"," ","p","l","a","y","e","r">>,  \* football player
           <<"s","o","c","c","e","r"," ","p","l","a","y","e","r">>,  \* soccer player
           <<"g","o","a","l","k","e","e","p","e","r">>,  \* goalkeeper
           <<"g","o","a","l"," ","p","o","s","t">>,  \* goal post
           <<"f","o","o","t","b","a","l","l"," ","s","t","a","d","i","u","m">>  \* football stadium
       >>],
       [sport |-> "Basketball", keywords |-> <<
           <<"b","a","s","k","e","t","b","a","l","l">>,  \* basketball
           <<"b","a","s","k","e","t","b","a","l","l"," ","p","l","a","y","e","r">>,  \* basketball player
           <<"b","a","s","k","e","t","b","a","l","l"," ","c","o","u","r","t">>,  \* basketball court
           <<"b","a","s","k","e","t","b","a","l","l"," ","h","o","o","p">>,  \* basketball hoop
           <<"b","a","s","k","e","t","b","a","l","l"," ","u","n","i","f","o","r","m">>  \* basketball uniform
       >>],
       [sport |-> "Tennis", keywords |-> <<
           <<"t","e","n","n","i","s">>,  \* tennis
           <<"t","e","n","n","i","s"," ","p","l","a","y","e","r">>,  \* tennis player
           <<"t","e","n","n","i","s"," ","r","a","c","k","e","t">>,  \* tennis racket
           <<"t","e","n","n","i","s"," ","c","o","u","r","t">>,  \* tennis court
           <<"t","e","n","n","i","s"," ","b","a","l","l">>  \* tennis ball
       >>],
       [sport |-> "Swimming", keywords |-> <<
           <<"s","w","i","m","m","i","n","g">>,  \* swimming
           <<"s","w","i","m","m","e","r">>,  \* swimmer
           <<"s","w","i","m","m","i","n","g"," ","p","o","o","l">>,  \* swimming pool
           <<"s","w","i","m","w","e","a","r">>,  \* swimwear
           <<"d","i","v","i","n","g"," ","p","l","a","t","f","o","r","m">>  \* diving platform
       >>],
       [sport |-> "Athletics / Running", keywords |-> <<
           <<"r","u","n","n","i","n","g">>,  \* running
           <<"r","u","n","n","e","r">>,  \* runner
           <<"t","r","a","c","k">>,  \* track
           <<"a","t","h","l","e","t","i","c","s">>,  \* athletics
           <<"s","p","r","i","n","t","e","r">>,  \* sprinter
           <<"h","u","r","d","l","e","s">>,  \* hurdles
           <<"r","e","l","a","y"," ","r","a","c","e">>,  \* relay race
           <<"m","a","r","a","t","h","o","n">>  \* marathon
       >>],
       [sport |-> "Volleyball", keywords |-> <<
           <<"v","o","l","l","e","y","b","a","l","l">>,  \* volleyball
           <<"v","o","l","l","e","y","b","a","l","l"," ","p","l","a","y","e","r">>,  \* volleyball player
           <<"v","o","l","l","e","y","b","a","l","l"," ","n","e","t">>,  \* volleyball net
           <<"b","e","a","c","h"," ","v","o","l","l","e","y","b","a","l","l">>  \* beach volleyball
       >>],
       [sport |-> "Rugby", keywords |-> <<
           <<"r","u","g","b","y">>,  \* rugby
           <<"r","u","g","b","y"," ","b","a","l","l">>,  \* rugby ball
           <<"r","u","g","b","y"," ","p","l","a","y","e","r">>  \* rugby player
       >>],
       [sport |-> "Baseball", keywords |-> <<
           <<"b","a","s","e","b","a","l","l">>,  \* baseball
           <<"b","a","s","e","b","a","l","l"," ","b","a","t">>,  \* baseball bat
           <<"b","a","s","e","b","a","l","l"," ","g","l","o","v","e">>,  \* baseball glove
           <<"b","a","s","e","b","a","l","l"," ","p","l","a","y","e","r">>,  \* baseball player
           <<"b","a","s","e","b","a","l","l"," ","f","i","e","l","d">>  \* baseball field
       >>],
       [sport |-> "Cricket", keywords |-> <<
           <<"c","r","i","c","k","e","t">>,  \* cricket
           <<"c","r","i","c","k","e","t"," ","b","a","t">>,  \* cricket bat
           <<"c","r","i","c","k","e","t"," ","p","l","a","y","e","r">>,  \* cricket player
           <<"c","r","i","c","k","e","t"," ","b","a","l","l">>,  \* cricket ball
           <<"w","i","c","k","e","t">>  \* wicket
       >>],
       [sport |-> "American Football", keywords |-> <<
           <<"a","m","e","r","i","c","a","n"," ","f","o","o","t","b","a","l","l">>,  \* american football
           <<"f","o","o","t","b","a","l","l"," ","h","e","l","m","e","t">>,  \* football helmet
           <<"a","m","e","r","i","c","a","n"," ","f","o","o","t","b","a","l","l"," ","p","l","a","y","e","r">>,  \* american football player
           <<"f","o","o","t","b","a","l","l"," ","p","a","d","s">>,  \* football pads
           <<"n","f","l">>  \* nfl
       >>],
       [sport |-> "Golf", keywords |-> <<
           <<"g","o","l","f">>,  \* golf
           <<"g","o","l","f"," ","c","o","u","r","s","e">>,  \* golf course
           <<"g","o","l","f"," ","c","l","u","b">>,  \* golf club
           <<"g","o","l","f","e","r">>  \* golfer
       >>],
       [sport |-> "Boxing", keywords |-> <<
           <<"b","o","x","i","n","g">>,  \* boxing
           <<"b","o","x","e","r">>,  \* boxer
           <<"b","o","x","i","n","g"," ","r","i","n","g">>,  \* boxing ring
           <<"b","o","x","i","n","g"," ","g","l","o","v","e","s">>  \* boxing gloves
       >>],
       [sport |-> "Martial Arts / MMA", keywords |-> <<
           <<"m","a","r","t","i","a","l"," ","a","r","t","s">>,  \* martial arts
           <<"k","a","r","a","t","e">>,  \* karate
           <<"j","u","d","o">>,  \* judo
           <<"t","a","e","k","w","o","n","d","o">>,  \* taekwondo
           <<"m","m","a">>,  \* mma
           <<"m","i","x","e","d"," ","m","a","r","t","i","a","l"," ","a","r","t","s">>,  \* mixed martial arts
           <<"k","i","c","k","b","o","x","i","n","g">>  \* kickboxing
       >>],
       [sport |-> "Cycling", keywords |-> <<
           <<"c","y","c","l","i","n","g">>,  \* cycling
           <<"c","y","c","l","i","s","t">>,  \* cyclist
           <<"b","i","c","y","c","l","e"," ","r","a","c","e">>,  \* bicycle race
           <<"b","i","k","e"," ","r","a","c","e">>,  \* bike race
           <<"m","o","u","n","t","a","i","n"," ","b","i","k","i","n","g">>,  \* mountain biking
           <<"r","o","a","d"," ","c","y","c","l","i","n","g">>  \* road cycling
       >>],
       [sport |-> "Ski / Snowboard", keywords |-> <<
           <<"s","k","i","i","n","g">>,  \* skiing
           <<"s","k","i","e","r">>,  \* skier
           <<"s","k","i"," ","s","l","o","p","e">>,  \* ski slope
           <<"s","n","o","w","b","o","a","r","d">>,  \* snowboard
           <<"s","n","o","w","b","o","a","r","d","i","n","g">>  \* snowboarding
       >>],
       [sport |-> "Surfing", keywords |-> <<
           <<"s","u","r","f","i","n","g">>,  \* surfing
           <<"s","u","r","f","e","r">>,  \* surfer
           <<"s","u","r","f","b","o","a","r","d">>,  \* surfboard
           <<"w","a","v","e"," ","r","i","d","i","n","g">>  \* wave riding
       >>],
       [sport |-> "Gymnastics", keywords |-> <<
           <<"g","y","m","n","a","s","t","i","c","s">>,  \* gymnastics
           <<"g","y","m","n","a","s","t">>,  \* gymnast
           <<"b","a","l","a","n","c","e"," ","b","e","a","m">>,  \* balance beam
           <<"u","n","e","v","e","n"," ","b","a","r","s">>,  \* uneven bars
           <<"p","o","m","m","e","l"," ","h","o","r","s","e">>,  \* pommel horse
           <<"f","l","o","o","r"," ","e","x","e","r","c","i","s","e">>  \* floor exercise
       >>],
       [sport |-> "Ice Hockey", keywords |-> <<
           <<"i","c","e"," ","h","o","c","k","e","y">>,  \* ice hockey
           <<"h","o","c","k","e","y"," ","s","t","i","c","k">>,  \* hockey stick
           <<"h","o","c","k","e","y"," ","p","l","a","y","e","r">>,  \* hockey player
           <<"h","o","c","k","e","y"," ","p","u","c","k">>,  \* hockey puck
           <<"i","c","e"," ","r","i","n","k">>  \* ice rink
       >>] >>

NumSports == Len(SPORT_KEYWORDS)
SportAt(i) == SPORT_KEYWORDS[i].sport
Sports == {SportAt(i) : i \in 1..NumSports}
KeywordsOf(sport) ==
    LET i == CHOOSE j \in 1..NumSports : SportAt(j) = sport
    IN  SPORT_KEYWORDS[i].keywords

\* str.lower(), on ASCII letters; every other character is kept.
UpperAlpha == <<"A","B","C","D","E","F","G","H","I","J","K","L","M",
                "N","O","P","Q","R","S","T","U","V","W","X","Y","Z">>
LowerAlpha == <<"a","b","c","d","e","f","g","h","i","j","k","l","m",
                "n","o","p","q","r","s","t","u","v","w","x","y","z">>
LowerChar(c) ==
    IF \E i \in 1..26 : UpperAlpha[i] = c
    THEN LowerAlpha[CHOOSE i \in 1..26 : UpperAlpha[i] = c]
    ELSE c
\* Variant: the name is compared as given.
IdentityLower(s) == s
Lower(s) == [i \in 1..Len(s) |-> LowerChar(s[i])]

\* `kw in name` on strings: kw occurs in name as a contiguous substring.
\* Variant: whole-name equality instead of containment.
EqualsKeyword(kw, name) == kw = name
IsSubstring(kw, name) ==
    \E i \in 0..(Len(name) - Len(kw)) : SubSeq(name, i + 1, i + Len(kw)) = kw

\* The builtin max(a, b) of line 329.
\* Variants: accumulation, and plain assignment of the new confidence.
Sum2(a, b) == a + b
Last2(a, b) == b
Max2(a, b) == IF b > a THEN b ELSE a

\* tag["name"] raises KeyError when the key is absent; .lower() raises
\* AttributeError when the value is not a string (JSON null gives None).
\* Variant: tag.get("name", "") never raises.
DefaultedNameError(tag) == None
NameError(tag) ==
    IF "name" \notin DOMAIN tag THEN "KeyError"
    ELSE IF tag.name.type # "string" THEN "AttributeError"
    ELSE None
TagName(tag) ==
    IF "name" \in DOMAIN tag /\ tag.name.type = "string"
    THEN Lower(tag.name.value) ELSE <<>>

\* tag.get("confidence", 0.0)
TagConf(tag) == IF "confidence" \in DOMAIN tag THEN tag.confidence ELSE 0

\* The loop `for kw in keywords` of lines 326-329 on one category's score.
RECURSIVE ScoreKeywords(_, _, _, _)
ScoreKeywords(sc, kws, name, conf) ==
    IF kws = <<>> THEN sc
    ELSE ScoreKeywords(IF IsSubstring(Head(kws), name)
                       THEN Max2(sc, conf) ELSE sc,
                       Tail(kws), name, conf)

\* The body of `for tag in tags` (lines 322-329) for a tag with a string name.
UpdateScores(sc, tag) ==
    LET name == TagName(tag)
        conf == TagConf(tag)
    IN  [s \in DOMAIN sc |-> ScoreKeywords(sc[s], KeywordsOf(s), name, conf)]

\* max(scores, key=scores.get) of line 332: the dict's keys are scanned in
\* order and the running best is replaced only by a strictly greater value.
\* Variant: a later equal score replaces the running best.
RECURSIVE MaxByScanNonStrict(_, _, _)
MaxByScanNonStrict(sc, i, best) ==
    IF i > NumSports THEN best
    ELSE MaxByScanNonStrict(sc, i + 1,
                   IF sc[SportAt(i)] >= sc[best] THEN SportAt(i) ELSE best)
RECURSIVE MaxByScan(_, _, _)
MaxByScan(sc, i, best) ==
    IF i > NumSports THEN best
    ELSE MaxByScan(sc, i + 1,
                   IF sc[SportAt(i)] > sc[best] THEN SportAt(i) ELSE best)
\* Variant: the last category among the greatest.
LastMaxSport(sc) ==
    LET m == CHOOSE i \in 1..NumSports :
                 /\ \A j \in 1..NumSports : sc[SportAt(j)] <= sc[SportAt(i)]
                 /\ \A j \in (i + 1)..NumSports : sc[SportAt(j)] < sc[SportAt(i)]
    IN  SportAt(m)
MaxSport(sc) == MaxByScan(sc, 2, SportAt(1))

\* scores = {sport: 0.0 for sport in SPORT_KEYWORDS}
InitScores == [s \in Sports |-> 0]

\* predict_sport_from_tags as a function: the returned tuple, or the
\* exception raised at the first tag without a string name.
RECURSIVE PredictLoop(_, _, _)
PredictLoop(tgs, i, sc) ==
    IF i > Len(tgs)
    THEN LET best == MaxSport(sc)
         IN  [raised |-> None, best_sport |-> best,
              best_score |-> sc[best], scores |-> sc]
    ELSE LET err == NameError(tgs[i])
         IN  IF err # None
             THEN [raised |-> err]
             ELSE PredictLoop(tgs, i + 1, UpdateScores(sc, tgs[i]))
predict_sport_from_tags(tgs) == PredictLoop(tgs, 1, InitScores)

----------------------------------------------------------------------------
\* Inputs of the classifier.
MaxTags == 2

Str_soccer_ball == <<"s","o","c","c","e","r"," ","b","a","l","l">>
Str_Soccer_Ball == <<"S","o","c","c","e","r"," ","B","a","l","l">>
Str_tennis_court == <<"t","e","n","n","i","s"," ","c","o","u","r","t">>
Str_tennis_racket == <<"t","e","n","n","i","s"," ","r","a","c","k","e","t">>
Str_cat == <<"c","a","t">>
Str_nfl == <<"n","f","l">>
Str_nfl_football == <<"n","f","l"," ","f","o","o","t","b","a","l","l">>
Str_football_helmet == <<"f","o","o","t","b","a","l","l"," ","h","e","l","m","e","t">>

NamePool == {Str_soccer_ball, Str_Soccer_Ball, Str_tennis_court,
             Str_tennis_racket, Str_cat, Str_nfl, Str_nfl_football,
             Str_football_helmet}
ConfPool == {40, 90}
Confidence == 0..100

WellFormedTags ==
    {[name |-> JStr(n), confidence |-> c] : n \in NamePool, c \in ConfPool}
    \cup {[name |-> JStr(Str_soccer_ball)], [name |-> JStr(Str_nfl)]}
MalformedTags ==
    {[confidence |-> 90], [name |-> JNull, confidence |-> 90]}
TagPool == WellFormedTags \cup MalformedTags

TagSeqs == UNION {[1..n -> TagPool] : n \in 0..MaxTags}

----------------------------------------------------------------------------
\* The module globals and the side-effect functions.

\* Truthiness of each module-level setting or client.  blob_container_client
\* is only ever set after blob_service_client (lines 71-76).
Envs ==
    {e \in [SUBSCRIPTION_KEY : BOOLEAN, ANALYZE_URL : BOOLEAN,
            SQL_CONNECTION_STRING : BOOLEAN,
            blob_service_client : BOOLEAN, blob_container_client : BOOLEAN,
            IMAGE_CONTAINER_NAME : BOOLEAN,
            email_client : BOOLEAN, ACS_SENDER_EMAIL : BOOLEAN] :
        e.blob_container_client => e.blob_service_client}

\* `not x` for a form value: None and the empty string are falsy.
Falsy(x) == x \in {None, ""}

\* `not SUBSCRIPTION_KEY or not ANALYZE_URL` of line 345.
\* Variant: `and` in place of `or`.
BothCredentialsMissing(e) == ~e.SUBSCRIPTION_KEY /\ ~e.ANALYZE_URL
CredentialsMissing(e) == ~e.SUBSCRIPTION_KEY \/ ~e.ANALYZE_URL

\* blob_client.url of the image blob named after the upload's timestamp;
\* r, the number of the request, stands for the timestamp.
ImageBlobUrl(r) == <<"sport-images", r>>

\* upload_image_to_blob_from_url: fetched is whether requests.get and
\* raise_for_status succeed, stored whether upload_blob succeeds.  A failed
\* create_container is passed over (line 116).
\* Variant: a failed fetch or store is not caught.
UploadPropagates(e, fetched, stored, r) ==
    IF ~e.blob_service_client \/ ~e.IMAGE_CONTAINER_NAME
    THEN [did |-> "skipped", value |-> None, raised |-> FALSE]
    ELSE IF fetched /\ stored
    THEN [did |-> "stored", value |-> ImageBlobUrl(r), raised |-> FALSE]
    ELSE [did |-> "failed", value |-> None, raised |-> TRUE]
upload_image_to_blob_from_url(e, fetched, stored, r) ==
    IF ~e.blob_service_client \/ ~e.IMAGE_CONTAINER_NAME
    THEN [did |-> "skipped", value |-> None, raised |-> FALSE]
    ELSE IF fetched /\ stored
    THEN [did |-> "stored", value |-> ImageBlobUrl(r), raised |-> FALSE]
    ELSE [did |-> "failed", value |-> None, raised |-> FALSE]

\* Lines 92-95: the existing content, or "" when download_blob raises.
ExistingBlob(content, downloaded) == IF downloaded THEN content ELSE <<>>

\* Line 97: existing_blob + line.
NewContent(existing, line) == existing \o <<line>>

\* log_prediction_to_blob as one uninterrupted call: value is the content
\* of predictions.log after it.
log_prediction_to_blob(e, content, line, downloaded, uploaded) ==
    IF ~e.blob_container_client
    THEN [did |-> "skipped", value |-> content, raised |-> FALSE]
    ELSE IF uploaded
    THEN [did |-> "written",
          value |-> NewContent(ExistingBlob(content, downloaded), line),
          raised |-> FALSE]
    ELSE [did |-> "failed", value |-> content, raised |-> FALSE]

\* save_prediction_to_db: inserted is whether connect, execute and commit
\* all succeed.
save_prediction_to_db(e, inserted) ==
    IF ~e.SQL_CONNECTION_STRING
    THEN [did |-> "skipped", raised |-> FALSE]
    ELSE IF inserted
    THEN [did |-> "inserted", raised |-> FALSE]
    ELSE [did |-> "failed", raised |-> FALSE]

\* send_prediction_email: sent is whether begin_send and poller.result
\* succeed.
send_prediction_email(e, to_email, sent) ==
    IF ~e.email_client \/ ~e.ACS_SENDER_EMAIL \/ Falsy(to_email)
    THEN [did |-> "skipped", raised |-> FALSE]
    ELSE IF sent
    THEN [did |-> "sent", raised |-> FALSE]
    ELSE [did |-> "failed", raised |-> FALSE]

\* The keyword arguments of render_template in index (lines 347 and 389).
\* Variant: the arguments history passes (lines 405-411).
HistoryResponse(p, s, err) == [prediction |-> None, score |-> None, error |-> err]
IndexResponse(p, s, err) == [prediction |-> p, score |-> s, error |-> err]

----------------------------------------------------------------------------
\* Inputs of the handler.
MaxRequests == 2
MaxLogCalls == 2
NumWriters == 2
Writers == 1..NumWriters

Methods == {"GET", "POST"}
ImageUrls == {"https://example.org/match.jpg"}
Emails == {None, "fan@example.org"}
VisionErrors == {"ConnectionError", "HTTPError", "JSONDecodeError"}
VisionTagSeqs ==
    { <<>>,
      <<[name |-> JStr(Str_tennis_court), confidence |-> 90]>>,
      <<[name |-> JStr(Str_football_helmet), confidence |-> 40],
        [name |-> JStr(Str_nfl), confidence |-> 90]>>,
      <<[confidence |-> 90]>> }

IndexIdle ==
    /\ env \in {e \in Envs : \A f \in DOMAIN e : e[f]}
    /\ req = 0
    /\ pc = "idle"
    /\ method = None
    /\ image_url = None
    /\ email = None
    /\ vision = None
    /\ cv_tags = None
    /\ prediction = None
    /\ score = None
    /\ error = None
    /\ blob_url = None
    /\ calls = <<>>
    /\ response = None
    /\ predictions_log = <<>>

WritersIdle ==
    /\ w_pc = [w \in Writers |-> "idle"]
    /\ w_existing = [w \in Writers |-> <<>>]
    /\ w_line = [w \in Writers |-> None]
    /\ w_calls = [w \in Writers |-> 0]

----------------------------------------------------------------------------
\* One call of predict_sport_from_tags, one loop iteration per step.

ClassifyIdle ==
    /\ tags = <<>>
    /\ idx = 0
    /\ scores = InitScores
    /\ cpc = "idle"
    /\ best_sport = None
    /\ best_score = None
    /\ exc = None

ClassifyInit ==
    /\ tags \in TagSeqs
    /\ idx = 0
    /\ scores = InitScores
    /\ cpc = "loop"
    /\ best_sport = None
    /\ best_score = None
    /\ exc = None
    /\ IndexIdle
    /\ WritersIdle

\* One iteration of `for tag in tags` on a tag with a string name.
ProcessTag ==
    /\ cpc = "loop"
    /\ idx < Len(tags)
    /\ NameError(tags[idx + 1]) = None
    /\ scores' = UpdateScores(scores, tags[idx + 1])
    /\ idx' = idx + 1
    /\ UNCHANGED <<tags, cpc, best_sport, best_score, exc>>
    /\ UNCHANGED <<indexVars, predictions_log, writerVars>>

\* Line 322 raises: the call is left without a result.
RaiseOnTag ==
    /\ cpc = "loop"
    /\ idx < Len(tags)
    /\ NameError(tags[idx + 1]) # None
    /\ exc' = NameError(tags[idx + 1])
    /\ cpc' = "raised"
    /\ UNCHANGED <<tags, idx, scores, best_sport, best_score>>
    /\ UNCHANGED <<indexVars, predictions_log, writerVars>>

\* Lines 332-333 once the loop is exhausted.
ReturnBest ==
    /\ cpc = "loop"
    /\ idx = Len(tags)
    /\ best_sport' = MaxSport(scores)
    /\ best_score' = scores[best_sport']
    /\ cpc' = "returned"
    /\ UNCHANGED <<tags, idx, scores, exc>>
    /\ UNCHANGED <<indexVars, predictions_log, writerVars>>

ClassifyNext == ProcessTag \/ RaiseOnTag \/ ReturnBest

SpecClassify == ClassifyInit /\ [][ClassifyNext]_vars

----------------------------------------------------------------------------
\* The handler index, one request at a time.

Init ==
    /\ env \in Envs
    /\ req = 0
    /\ pc = "idle"
    /\ method = None
    /\ image_url = None
    /\ email = None
    /\ vision = None
    /\ cv_tags = None
    /\ prediction = None
    /\ score = None
    /\ error = None
    /\ blob_url = None
    /\ calls = <<>>
    /\ response = None
    /\ predictions_log = <<>>
    /\ ClassifyIdle
    /\ WritersIdle

\* Lines 339-353: a request arrives; the locals are fresh.  Without the
\* vision credentials the handler answers at once (line 347); a GET goes
\* straight to line 389.
ReceiveRequest ==
    /\ pc = "idle"
    /\ req < MaxRequests
    /\ \E m \in Methods, u \in ImageUrls, a \in Emails :
        /\ req' = req + 1
        /\ method' = m
        /\ vision' = None
        /\ cv_tags' = None
        /\ prediction' = None
        /\ score' = None
        /\ blob_url' = None
        /\ calls' = <<>>
        /\ IF CredentialsMissing(env)
           THEN /\ error' = "credentials"
                /\ image_url' = None
                /\ email' = None
                /\ response' = IndexResponse(None, None, "credentials")
                /\ pc' = "idle"
           ELSE /\ error' = None
                /\ response' = None
                /\ IF m = "POST"
                   THEN /\ image_url' = u
                        /\ email' = a
                        /\ pc' = "vision"
                   ELSE /\ image_url' = None
                        /\ email' = None
                        /\ pc' = "render"
    /\ UNCHANGED <<env, predictions_log, classifyVars, writerVars>>

\* Lines 363-367: requests.post, raise_for_status, response.json and
\* result.get("tags", []); any exception goes to line 385.
VisionCall ==
    /\ pc = "vision"
    /\ \/ \E x \in VisionErrors :
            /\ vision' = x
            /\ error' = x
            /\ cv_tags' = None
            /\ pc' = "render"
       \/ \E t \in VisionTagSeqs :
            /\ vision' = "ok"
            /\ cv_tags' = t
            /\ error' = error
            /\ pc' = "classify"
    /\ UNCHANGED <<env, req, method, image_url, email, prediction, score,
                   blob_url, calls, response, predictions_log,
                   classifyVars, writerVars>>

\* Line 370: the tuple is assigned only when the call returns.
Classify ==
    /\ pc = "classify"
    /\ LET r == predict_sport_from_tags(cv_tags)
       IN  IF r.raised # None
           THEN /\ error' = r.raised
                /\ pc' = "render"
                /\ UNCHANGED <<prediction, score>>
           ELSE /\ prediction' = r.best_sport
                /\ score' = r.best_score
                /\ pc' = "upload"
                /\ error' = error
    /\ UNCHANGED <<env, req, method, image_url, email, vision, cv_tags,
                   blob_url, calls, response, predictions_log,
                   classifyVars, writerVars>>

\* Line 374.
UploadImage ==
    /\ pc = "upload"
    /\ \E fetched \in BOOLEAN, stored \in BOOLEAN :
        LET r == upload_image_to_blob_from_url(env, fetched, stored, req)
        IN  /\ calls' = Append(calls, [fn |-> "upload_image_to_blob_from_url",
                                       did |-> r.did, arg |-> r.value])
            /\ IF r.raised
               THEN /\ error' = "Exception"
                    /\ pc' = "render"
                    /\ UNCHANGED blob_url
               ELSE /\ blob_url' = r.value
                    /\ pc' = "log"
                    /\ error' = error
    /\ UNCHANGED <<env, req, method, image_url, email, vision, cv_tags,
                   prediction, score, response, predictions_log,
                   classifyVars, writerVars>>

\* Line 377; the line is "timestamp,image_url,prediction,score", req
\* standing for the timestamp.
LogPrediction ==
    /\ pc = "log"
    /\ \E downloaded \in BOOLEAN, uploaded \in BOOLEAN :
        LET line == <<req, image_url, prediction, score>>
            r == log_prediction_to_blob(env, predictions_log, line,
                                        downloaded, uploaded)
        IN  /\ calls' = Append(calls, [fn |-> "log_prediction_to_blob",
                                       did |-> r.did, arg |-> line])
            /\ predictions_log' = r.value
            /\ IF r.raised
               THEN /\ error' = "Exception"
                    /\ pc' = "render"
               ELSE /\ pc' = "sql"
                    /\ error' = error
    /\ UNCHANGED <<env, req, method, image_url, email, vision, cv_tags,
                   prediction, score, blob_url, response,
                   classifyVars, writerVars>>

\* Line 380: the row carries the local blob_url.
SavePrediction ==
    /\ pc = "sql"
    /\ \E inserted \in BOOLEAN :
        LET r == save_prediction_to_db(env, inserted)
        IN  /\ calls' = Append(calls, [fn |-> "save_prediction_to_db",
                                       did |-> r.did, arg |-> blob_url])
            /\ IF r.raised
               THEN /\ error' = "Exception"
                    /\ pc' = "render"
               ELSE /\ pc' = "email"
                    /\ error' = error
    /\ UNCHANGED <<env, req, method, image_url, email, vision, cv_tags,
                   prediction, score, blob_url, response, predictions_log,
                   classifyVars, writerVars>>

\* Line 383.
SendEmail ==
    /\ pc = "email"
    /\ \E sent \in BOOLEAN :
        LET r == send_prediction_email(env, email, sent)
        IN  /\ calls' = Append(calls, [fn |-> "send_prediction_email",
                                       did |-> r.did, arg |-> email])
            /\ error' = IF r.raised THEN "Exception" ELSE error
            /\ pc' = "render"
    /\ UNCHANGED <<env, req, method, image_url, email, vision, cv_tags,
                   prediction, score, blob_url, response, predictions_log,
                   classifyVars, writerVars>>

\* Line 389.
Render ==
    /\ pc = "render"
    /\ response' = IndexResponse(prediction, score, error)
    /\ pc' = "idle"
    /\ UNCHANGED <<env, req, method, image_url, email, vision, cv_tags,
                   prediction, score, error, blob_url, calls,
                   predictions_log, classifyVars, writerVars>>

Next ==
    \/ ReceiveRequest
    \/ VisionCall
    \/ Classify
    \/ UploadImage
    \/ LogPrediction
    \/ SavePrediction
    \/ SendEmail
    \/ Render

Spec == Init /\ [][Next]_vars

----------------------------------------------------------------------------
\* Concurrent calls of log_prediction_to_blob: requests served by different
\* threads or workers share only the blob.  A call is two storage
\* operations, download_blob (line 93) and upload_blob (line 98), and other
\* calls may run between them.

LogInit ==
    /\ IndexIdle
    /\ ClassifyIdle
    /\ WritersIdle

\* Lines 87-95 of writer w's next call; <<w, n>> stands for the timestamp
\* of its line.
LogDownload(w) ==
    /\ w_pc[w] = "idle"
    /\ w_calls[w] < MaxLogCalls
    /\ env.blob_container_client
    /\ \E downloaded \in BOOLEAN :
        w_existing' = [w_existing EXCEPT ![w] =
                          ExistingBlob(predictions_log, downloaded)]
    /\ w_line' = [w_line EXCEPT ![w] = <<w, w_calls[w] + 1>>]
    /\ w_calls' = [w_calls EXCEPT ![w] = @ + 1]
    /\ w_pc' = [w_pc EXCEPT ![w] = "downloaded"]
    /\ UNCHANGED <<predictions_log, classifyVars, indexVars>>

\* Lines 97-104: the upload overwrites the blob, or fails and is logged.
LogUpload(w) ==
    /\ w_pc[w] = "downloaded"
    /\ \E uploaded \in BOOLEAN :
        predictions_log' = IF uploaded
                           THEN NewContent(w_existing[w], w_line[w])
                           ELSE predictions_log
    /\ w_pc' = [w_pc EXCEPT ![w] = "idle"]
    /\ UNCHANGED <<w_existing, w_line, w_calls, classifyVars, indexVars>>

LogNext == \E w \in Writers : LogDownload(w) \/ LogUpload(w)

SpecLog == LogInit /\ [][LogNext]_vars

----------------------------------------------------------------------------
\* Vocabulary of the properties.

WellFormed(tag) == "name" \in DOMAIN tag /\ tag.name.type = "string"

\* The tag's lowercased name contains one of the category's keywords.
NameMatches(sport, tag) ==
    LET name == Lower(tag.name.value)
        kws == KeywordsOf(sport)
    IN  \E k \in 1..Len(kws) : IsSubstring(kws[k], name)

SetMax(S) == CHOOSE m \in S : \A x \in S : x <= m

MatchingConfs(sport) ==
    {TagConf(tags[i]) : i \in {j \in 1..Len(tags) : NameMatches(sport, tags[j])}}

Soccer == "Football (Soccer)"
AmericanFootball == "American Football"

\* The request has been answered.
Responded == pc = "idle" /\ req > 0

IsPrefix(a, b) == Len(a) <= Len(b) /\ SubSeq(b, 1, Len(a)) = a

----------------------------------------------------------------------------
\* C1: when predict_sport_from_tags returns, every category's score is the
\* greatest confidence among the tags whose lowercased name contains one of
\* its keywords, and 0.0 when no tag matches; it is never a sum.
C1_ScoreIsMaxOfMatches ==
    cpc = "returned" =>
        \A s \in Sports :
            LET confs == MatchingConfs(s)
            IN  scores[s] = IF confs = {} THEN 0 ELSE SetMax(confs)

\* The scenario of two tennis tags, 0.9 and 0.4: Tennis wins with 0.9.
C1_Witness ==
    /\ cpc = "returned"
    /\ tags = <<[name |-> JStr(Str_tennis_court), confidence |-> 90],
                [name |-> JStr(Str_tennis_racket), confidence |-> 40]>>
    /\ best_sport = "Tennis"
    /\ best_score = 90

\* C2: a call on tags that all have a string name returns; the returned
\* category is the first in declared order among those with the greatest
\* score, with that score; when no tag matches any keyword it is the
\* first-declared category with 0.0 and every entry is 0.0.
C2_FirstAmongGreatest ==
    /\ cpc = "raised" => \E i \in 1..Len(tags) : ~WellFormed(tags[i])
    /\ cpc = "returned" =>
        /\ \E i \in 1..NumSports :
            /\ best_sport = SportAt(i)
            /\ best_score = scores[SportAt(i)]
            /\ \A j \in 1..NumSports : scores[SportAt(j)] <= best_score
            /\ \A j \in 1..(i - 1) : scores[SportAt(j)] < best_score
        /\ (\A s \in Sports : MatchingConfs(s) = {}) =>
            /\ best_sport = Soccer
            /\ best_sport = SportAt(1)
            /\ best_score = 0
            /\ \A s \in Sports : scores[s] = 0

\* Tennis and American Football tie at 0.9 above every other category: the
\* earlier-declared Tennis is returned.
C2_Witness ==
    /\ cpc = "returned"
    /\ scores["Tennis"] = 90
    /\ scores[AmericanFootball] = 90
    /\ scores[Soccer] < 90
    /\ best_sport = "Tennis"

\* C3 as stated: a tag without a usable name makes the call fail with the
\* error kind InvalidInput, wherever the tag is.
C3_FailsWithInvalidInput ==
    (cpc # "loop" /\ \E i \in 1..Len(tags) : ~WellFormed(tags[i])) =>
        (cpc = "raised" /\ exc = "InvalidInput")

\* C3 amended: a tag without a usable name makes the call fail without a
\* result, wherever the tag is, with the exception of the first such tag:
\* KeyError when the name is absent, AttributeError when it is not a string.
C3_FailsWithPythonError ==
    (cpc # "loop" /\ \E i \in 1..Len(tags) : ~WellFormed(tags[i])) =>
        LET f == CHOOSE i \in 1..Len(tags) :
                     /\ ~WellFormed(tags[i])
                     /\ \A j \in 1..(i - 1) : WellFormed(tags[j])
        IN  /\ cpc = "raised"
            /\ best_sport = None
            /\ exc = IF "name" \in DOMAIN tags[f]
                     THEN "AttributeError" ELSE "KeyError"

\* A matching tag first, then a tag whose name is null.
C3_Witness ==
    /\ cpc = "raised"
    /\ Len(tags) = 2
    /\ WellFormed(tags[1])
    /\ NameMatches("Tennis", tags[1])
    /\ "name" \in DOMAIN tags[2]
    /\ exc = "AttributeError"

\* C5: tag sequences equal except for the letter case of the names give the
\* same best category, best score and ScoreBoard.
SameLetter(c, d) ==
    c = d \/ \E i \in 1..26 : {c, d} = {UpperAlpha[i], LowerAlpha[i]}
SameNameUpToCase(a, b) ==
    Len(a) = Len(b) /\ \A i \in 1..Len(a) : SameLetter(a[i], b[i])
SameTagUpToCase(t, u) ==
    /\ WellFormed(t) /\ WellFormed(u)
    /\ DOMAIN t = DOMAIN u
    /\ TagConf(t) = TagConf(u)
    /\ SameNameUpToCase(t.name.value, u.name.value)
CaseVariants == [t \in WellFormedTags |->
                    {u \in WellFormedTags : SameTagUpToCase(t, u)}]
RECURSIVE CaseVariantSeqs(_, _)
CaseVariantSeqs(tgs, n) ==
    IF n = 0 THEN {<<>>}
    ELSE {Append(v, u) : v \in CaseVariantSeqs(tgs, n - 1),
                         u \in CaseVariants[tgs[n]]}
C5_CaseInsensitive ==
    cpc = "returned" =>
        \A v \in CaseVariantSeqs(tags, Len(tags)) :
            predict_sport_from_tags(v) =
                [raised |-> None, best_sport |-> best_sport,
                 best_score |-> best_score, scores |-> scores]

\* "Soccer Ball" at 0.9 and "soccer ball" at 0.4: four sequences differ
\* from this one by letter case only.
C5_Witness ==
    /\ cpc = "returned"
    /\ Len(tags) = 2
    /\ tags[1].name.value = Str_Soccer_Ball
    /\ tags[2].name.value = Str_soccer_ball
    /\ TagConf(tags[1]) = 90
    /\ TagConf(tags[2]) = 40
    /\ best_sport = Soccer
    /\ best_score = 90
    /\ Cardinality(CaseVariantSeqs(tags, 2)) = 4

\* C7: throughout the pass the ScoreBoard has exactly the categories of the
\* table as its entries, each within [0.0, 1.0] when the confidences are,
\* no entry ever decreases, and the returned category is one of the table.
C7_ScoreBoardShape ==
    /\ [](/\ DOMAIN scores = Sports
          /\ (\A i \in 1..Len(tags) : TagConf(tags[i]) \in Confidence)
                => \A s \in Sports : scores[s] \in Confidence
          /\ cpc = "returned" => best_sport \in Sports)
    /\ [][\A s \in Sports : scores'[s] >= scores[s]]_vars

\* Mid-pass, after a 0.4 tennis tag followed a 0.9 one.
C7_Witness ==
    /\ cpc = "loop"
    /\ idx = 2
    /\ tags[1].name.value = Str_tennis_court
    /\ tags[2].name.value = Str_tennis_racket
    /\ TagConf(tags[1]) = 90
    /\ TagConf(tags[2]) = 40
    /\ scores["Tennis"] = 90

\* C10: every American Football keyword but "nfl" contains "football"; so
\* the soccer score is at least the confidence of any tag matching one of
\* them, and American Football is returned only if a tag containing "nfl"
\* has a confidence above the soccer score.
OtherAFKeywords ==
    {KeywordsOf(AmericanFootball)[k] :
        k \in 1..Len(KeywordsOf(AmericanFootball))} \ {Str_nfl}
Str_football == <<"f","o","o","t","b","a","l","l">>
C10_SoccerShadowsAmericanFootball ==
    /\ \A kw \in OtherAFKeywords : IsSubstring(Str_football, kw)
    /\ \E k \in 1..Len(KeywordsOf(Soccer)) : KeywordsOf(Soccer)[k] = Str_football
    /\ cpc = "returned" =>
        /\ \A i \in 1..Len(tags) :
            (\E kw \in OtherAFKeywords :
                IsSubstring(kw, Lower(tags[i].name.value)))
              => scores[Soccer] >= TagConf(tags[i])
        /\ best_sport = AmericanFootball =>
            \E i \in 1..Len(tags) :
                /\ IsSubstring(Str_nfl, Lower(tags[i].name.value))
                /\ TagConf(tags[i]) > scores[Soccer]

\* A football helmet at 0.4 and an nfl tag at 0.9: American Football wins.
C10_Witness ==
    /\ cpc = "returned"
    /\ best_sport = AmericanFootball
    /\ \E i \in 1..Len(tags) :
        /\ tags[i].name.value = Str_football_helmet
        /\ TagConf(tags[i]) = 40
    /\ scores[Soccer] = 40
    /\ best_score = 90

----------------------------------------------------------------------------
\* The four side-effect calls of index, in the order of lines 374-383.
SideEffects == <<"upload_image_to_blob_from_url", "log_prediction_to_blob",
                 "save_prediction_to_db", "send_prediction_email">>

\* C4: a POST whose vision call and classification succeed is answered with
\* the classification's category and score, whichever side effects failed
\* or were skipped.
C4_PredictionAlwaysReturned ==
    (Responded /\ vision = "ok") =>
        LET r == predict_sport_from_tags(cv_tags)
        IN  r.raised = None =>
                /\ response.prediction = r.best_sport
                /\ response.score = r.best_score

\* Upload, log, insert and send all failed, and the answer is still Tennis.
C4_Witness ==
    /\ Responded
    /\ Len(calls) = 4
    /\ \A i \in 1..4 : calls[i].did = "failed"
    /\ response.prediction = "Tennis"
    /\ response.score = 90

\* C8: the side effects are called at most once each, in the order upload,
\* log, insert, send, only after the classification; a request that was
\* classified calls all four whatever the earlier ones did, none that is
\* configured is skipped, and the insert receives the URL stored by this
\* request's upload, or None.
C8_SideEffectsOnceInOrder ==
    /\ Len(calls) <= 4
    /\ \A i \in 1..Len(calls) : calls[i].fn = SideEffects[i]
    /\ calls # <<>> => prediction # None
    /\ (Responded /\ prediction # None) =>
        /\ Len(calls) = 4
        /\ (env.blob_service_client /\ env.IMAGE_CONTAINER_NAME)
              => calls[1].did # "skipped"
        /\ env.blob_container_client => calls[2].did # "skipped"
        /\ env.SQL_CONNECTION_STRING => calls[3].did # "skipped"
        /\ (env.email_client /\ env.ACS_SENDER_EMAIL /\ email \notin {None, ""})
              => calls[4].did # "skipped"
    /\ Len(calls) >= 3 =>
        calls[3].arg = IF calls[1].did = "stored"
                       THEN <<"sport-images", req>> ELSE None

\* The second request: its upload stored the image, its log append failed,
\* and its insert and send still went out, the insert with this request's URL.
C8_Witness ==
    /\ Responded
    /\ req = 2
    /\ Len(calls) = 4
    /\ calls[1].did = "stored"
    /\ calls[2].did = "failed"
    /\ calls[3].did = "inserted"
    /\ calls[3].arg = <<"sport-images", 2>>
    /\ calls[4].did = "sent"

\* C9: a side effect is called only in a POST, with the vision credentials
\* set, after a successful vision call and a classification result; a
\* request without credentials, a GET, or one whose vision call failed is
\* answered without prediction or score and without any side effect.
C9_NoSideEffectWithoutResult ==
    /\ calls # <<>> =>
        /\ env.SUBSCRIPTION_KEY /\ env.ANALYZE_URL
        /\ method = "POST"
        /\ vision = "ok"
        /\ prediction # None
    /\ (Responded /\ (\/ ~env.SUBSCRIPTION_KEY
                      \/ ~env.ANALYZE_URL
                      \/ method = "GET"
                      \/ vision \in VisionErrors)) =>
        /\ calls = <<>>
        /\ response.prediction = None
        /\ response.score = None

\* A POST with everything configured whose vision call answered with an
\* error status.
C9_Witness ==
    /\ Responded
    /\ \A f \in DOMAIN env : env[f]
    /\ method = "POST"
    /\ vision = "HTTPError"
    /\ calls = <<>>
    /\ response.prediction = None
    /\ response.error = "HTTPError"

\* C6 as stated: every write of predictions.log keeps the content that was
\* there before it as a prefix.
C6_LogAppendOnly ==
    [][IsPrefix(predictions_log, predictions_log')]_vars

====
